---- MODULE Spec2Model ----
(***************************************************************************)
(* The staleness-propagation and refresh engine of DySART                  *)
(* (dysart/feature.py, dysart/labber/labber_feature.py, dysart/hooks,      *)
(* dysart/project.py, dysart/equs_std/equs_features.py).                   *)
(*                                                                         *)
(* A feature is a mongoengine document.  The project keeps one Python      *)
(* object per feature (the "project handle", the one a client calls and    *)
(* the only one that carries the hooks attached by Project.include_feature)*)
(* and the database keeps the persisted document.  Feature.parents builds  *)
(* a new Python object for every parent from the persisted document on     *)
(* every access; such an object has no hooks and shares nothing with the   *)
(* project handle except the document it is saved to.  Document.save       *)
(* writes the fields that were assigned a different value since the last   *)
(* load or save of that object.                                            *)
(*                                                                         *)
(* A refresh-wrapped call is modelled by the operator Wrapped, which       *)
(* threads a world record (database, log directory, call records, clock,   *)
(* event trace) and the handle it is called on through the code of         *)
(* refresh.wrapped_fn, Feature.is_stale, the update action and the wrapped *)
(* method body.  Every client operation is one action.                     *)
(***************************************************************************)
EXTENDS Integers, Sequences, FiniteSets, TLC

(* ------------------------------ bounds -------------------------------- *)
MaxOps == 2
MaxClock == 2
MaxDepth == 4
MaxLen == 4

(* --------------------------- program values --------------------------- *)
Nodes == {"a", "p1", "p2", "n"}

Kinds == {"Feature", "Labber", "Rabi"}

Policies == {"none", "always_fresh", "always_expired", "timeout"}

ResultNames == {"fit", "center_freq"}

TimeoutDelta == 1

NoExc == "none"

NoTime == -1

NoRecord == 0

NoIndex == -99

PK(k, i) == [key |-> k, id |-> i]

(* parent_ids of every feature, as the role-keyed mappings of three        *)
(* project files: a diamond, a triangle (n depends on p1 and p2, p1 on p2) *)
(* and a chain whose last feature is a QubitRabi reading its `spec` parent.*)
DiamondGraph == [a |-> <<>>, p1 |-> <<PK("up", "a")>>, p2 |-> <<PK("up", "a")>>,
                 n |-> <<PK("left", "p1"), PK("right", "p2")>>]

TriangleGraph == [a |-> <<>>, p2 |-> <<PK("up", "a")>>, p1 |-> <<PK("up", "p2")>>,
                  n |-> <<PK("left", "p1"), PK("right", "p2")>>]

ChainGraph == [a |-> <<>>, p2 |-> <<PK("up", "a")>>, p1 |-> <<PK("up", "p2")>>,
               n |-> <<PK("spec", "p1")>>]

AllKind(k) == [x \in Nodes |-> k]

RabiKinds == [a |-> "Labber", p1 |-> "Labber", p2 |-> "Labber", n |-> "Rabi"]

Projects == { [graph |-> DiamondGraph, kind |-> AllKind("Feature")],
              [graph |-> TriangleGraph, kind |-> AllKind("Feature")],
              [graph |-> DiamondGraph, kind |-> AllKind("Labber")],
              [graph |-> ChainGraph, kind |-> RabiKinds] }

VARIABLES
    kind,      \* class of every feature (project file, `class`)
    hook,      \* expiration hook attached to every project handle
    pre_hook,  \* whether a pre_hook is attached to the project handle
    post_hook, \* whether a post_hook is attached to the project handle
    db,        \* persisted feature documents
    mem,       \* the project handles (Project.features)
    logs,      \* number of Labber log files of every feature
    records,   \* the CallRecords, in order of creation
    clock,     \* datetime.now()
    last,      \* the last client operation and what it did
    declared,  \* `parents` of every feature in the project file
    srv,       \* the request handlers of the server and the instrument lock
    tool       \* what a session outside the feature graph works on: the
               \* config file, the dummy lab, a fitting routine, a scenario
               \* file or a service

vars == <<kind, hook, pre_hook, post_hook, db, mem, logs, records, clock, last,
          declared, srv, tool>>

(* the coroutines of the server that handle one request each, and the     *)
(* server with no request received                                         *)
Handlers == {1, 2}

NoHolder == 0

IdleHandler == [pc |-> "idle", feature |-> "", method |-> "", plan |-> <<>>,
                todo |-> <<>>, ran |-> <<>>, rec |-> NoRecord,
                invoked |-> FALSE, resp |-> ""]

IdleServer == [lock |-> NoHolder, hs |-> [h \in Handlers |-> IdleHandler]]

(* a session on the feature graph works on none of the tools *)
NoTool == [on |-> "none"]


(* ------------------------- handles and documents ---------------------- *)
EmptyDict == [x \in {} |-> 0]

Max(x, y) == IF x >= y THEN x ELSE y

(* A new Python object for the document `id`: Feature.objects(id=...)[0].  *)
(* It has no hook attributes and no pending changes.                       *)
Load(d, id) ==
    [id |-> id, sw |-> d[id].sw, results |-> d[id].results,
     parent_ids |-> d[id].parent_ids, proj |-> FALSE,
     chg |-> {}, chg_keys |-> {}]

(* A document as first saved by Feature.__init__ for a new feature.        *)
NewDoc == [sw |-> FALSE, results |-> <<>>, parent_ids |-> <<>>]

(* Assignment to manual_expiration_switch: the field is marked changed     *)
(* when the value assigned differs from the one held.                      *)
SetSwitch(h, v) ==
    [h EXCEPT !.sw = v, !.chg = IF h.sw # v THEN @ \cup {"sw"} ELSE @]

(* results as written by a save that carries single changed entries.       *)
MergeKeys(dres, h) ==
    LET top == Max(Len(dres),
                   IF h.chg_keys = {} THEN 0
                   ELSE CHOOSE i \in {k[1] : k \in h.chg_keys} :
                            \A j \in {k[1] : k \in h.chg_keys} : j <= i)
    IN [i \in 1..top |->
          LET base == IF i <= Len(dres) THEN dres[i] ELSE EmptyDict
              mine == {k[2] : k \in {x \in h.chg_keys : x[1] = i}}
          IN [nm \in (DOMAIN base) \cup mine |->
                IF nm \in mine THEN h.results[i][nm] ELSE base[nm]]]

Emit(w, e, id, m) ==
    [w EXCEPT !.trace = Append(@, [e |-> e, id |-> id, m |-> m])]

(* a save that writes nothing *)
SaveDoc_nothing(d, h) == d

(* Document.save(): only the changed fields of the handle are written.     *)
SaveDoc(d, h) ==
    [d EXCEPT ![h.id] =
        [sw |-> IF "sw" \in h.chg THEN h.sw ELSE @.sw,
         results |-> IF "results" \in h.chg THEN h.results
                     ELSE IF h.chg_keys # {} THEN MergeKeys(@.results, h)
                     ELSE @.results,
         parent_ids |-> IF "parent_ids" \in h.chg THEN h.parent_ids
                        ELSE @.parent_ids]]

Save(w, h) ==
    [w |-> Emit([w EXCEPT !.db = SaveDoc(w.db, h)], "save", h.id, ""),
     h |-> [h EXCEPT !.chg = {}, !.chg_keys = {}]]

Ok(w, h, ret) == [w |-> w, h |-> h, exc |-> NoExc, ret |-> ret]

Raise(w, h, e) == [w |-> w, h |-> h, exc |-> e, ret |-> FALSE]

(* ------------------------------ CallRecord ---------------------------- *)
(* CallRecord(...) followed by setup(): start time set, record stored.     *)
(* a record filed under the feature of the initiating call *)
NewRecord_initiator(w, id, m, init) ==
    [feature |-> IF init = NoRecord THEN id ELSE w.records[init].feature,
     method |-> m, init |-> init,
     level |-> IF init = NoRecord THEN 0 ELSE w.records[init].level + 1,
     start |-> w.clock, stop |-> NoTime, status |-> "NONE"]

NewRecord(w, id, m, init) ==
    [feature |-> id, method |-> m, init |-> init,
     level |-> IF init = NoRecord THEN 0 ELSE w.records[init].level + 1,
     start |-> w.clock, stop |-> NoTime, status |-> "NONE"]

(* a conclude that stores DONE whatever it is given *)
Conclude_done(w, rid, status) ==
    Emit([w EXCEPT !.records[rid].status = "DONE",
                   !.records[rid].stop = w.clock],
         "conclude", w.records[rid].feature, "DONE")

Conclude(w, rid, status) ==
    Emit([w EXCEPT !.records[rid].status = status,
                   !.records[rid].stop = w.clock],
         "conclude", w.records[rid].feature, status)

(* --------------------------- expiration hooks ------------------------- *)
(* feature.call_records().order_by('-stop_time')[0]: the record of this    *)
(* feature with the greatest stop time; records without a stop time sort   *)
(* after all others.  0 when the feature has no record.                    *)
LastQuery(recs, id) ==
    LET mine == {i \in 1..Len(recs) : recs[i].feature = id}
    IN IF mine = {} THEN 0
       ELSE CHOOSE i \in mine :
              \A j \in mine : recs[j].stop < recs[i].stop
                              \/ (recs[j].stop = recs[i].stop /\ j >= i)

TimeoutHook(recs, now, id) ==
    LET q == LastQuery(recs, id)
    IN IF q = 0 THEN [exc |-> "IndexError", val |-> "FRESH"]
       ELSE IF recs[q].stop = NoTime THEN [exc |-> "TypeError", val |-> "FRESH"]
       ELSE [exc |-> NoExc,
             val |-> IF now - recs[q].stop > TimeoutDelta THEN "EXPIRED" ELSE "FRESH"]

(* The hook attached to handle h, evaluated; "none" when h has no          *)
(* __expiration_hook__ attribute.                                          *)
HookOf(h) == IF h.proj THEN hook[h.id] ELSE "none"

HookEval(w, h) ==
    CASE HookOf(h) = "always_fresh" -> [exc |-> NoExc, val |-> "FRESH"]
      [] HookOf(h) = "always_expired" -> [exc |-> NoExc, val |-> "EXPIRED"]
      [] HookOf(h) = "timeout" -> TimeoutHook(w.records, w.clock, h.id)
      [] OTHER -> [exc |-> NoExc, val |-> "FRESH"]

(* Feature.expired *)
FeatureExpired(sw, hooked, hookval) ==
    sw \/ (hooked /\ hookval = "EXPIRED")

(* an off-by-one in the test for a recorded result *)
no_recorded_result_offbyone(nlogs) == ~(nlogs > 1)

no_recorded_result(nlogs) == ~(nlogs > 0)

(* LabberFeature.expired *)
LabberExpired(nlogs, sw) ==
    no_recorded_result(nlogs) \/ sw

(* self.expired(call_record=None) on handle h: [exc, val] *)
Expired(w, h) ==
    IF kind[h.id] = "Feature"
    THEN IF HookOf(h) = "none"
         THEN [exc |-> NoExc, val |-> FeatureExpired(h.sw, FALSE, "FRESH")]
         ELSE LET e == HookEval(w, h)
              IN [exc |-> e.exc, val |-> FeatureExpired(h.sw, TRUE, e.val)]
    ELSE [exc |-> NoExc, val |-> LabberExpired(w.logs[h.id], h.sw)]


(* --------------------------- the refresh wrapper ---------------------- *)
(* Keyword arguments of a wrapped call: the initiating call record, whether*)
(* `is_stale` was passed, and the index given by keyword or by position.   *)
TouchKw(rid) == [init |-> rid, has_stale |-> TRUE, stale |-> FALSE,
                 ikw |-> NoIndex, ipos |-> NoIndex]

ClientKw == [init |-> NoRecord, has_stale |-> FALSE, stale |-> FALSE,
             ikw |-> NoIndex, ipos |-> NoIndex]

(* return_value bound to a default before the try statement *)
ReturnValue_default(bound) == NoExc

(* `return return_value` after the try statement: the name is bound only   *)
(* when fn returned; otherwise the statement raises UnboundLocalError,     *)
(* whatever exception the except clause caught.                            *)
ReturnValue(bound) == IF bound THEN NoExc ELSE "UnboundLocalError"

(* is_stale without its last assignment *)
ConsumeSwitch_skip(h) == h

(* `self.manual_expiration_switch = False` at the end of is_stale.         *)
ConsumeSwitch(h) == SetSwitch(h, FALSE)

(* self.parents: one new object per parent key, all built before the first *)
(* of them is touched.                                                     *)
Parents(d, h) == [i \in 1..Len(h.parent_ids) |-> Load(d, h.parent_ids[i].id)]

(* sequences as Python indexes them: position (1-based) of index i in a    *)
(* sequence of length len, 0 when i is out of range.                       *)
PyPos(len, i) ==
    IF i >= 0 THEN (IF i < len THEN i + 1 ELSE 0)
    ELSE (IF len + i >= 0 THEN len + i + 1 ELSE 0)

(* LogHistory.__getitem__(index): the log index read, or the error.        *)
(* A negative index is looked up again as len(self) + index until it is    *)
(* not negative; with no log file that never ends.                         *)
LogGet(nlogs, i) ==
    IF i < 0
    THEN IF nlogs = 0 THEN [exc |-> "RecursionError", idx |-> 0]
         ELSE [exc |-> NoExc, idx |-> i % nlogs]
    ELSE IF i < nlogs THEN [exc |-> NoExc, idx |-> i]
    ELSE [exc |-> "IndexError", idx |-> 0]

(* `while len(feature.results) <= index: feature.results.append({})`       *)
PadResults(h, index) ==
    IF Len(h.results) <= index
    THEN [h EXCEPT !.results = [i \in 1..(index + 1) |->
                                  IF i <= Len(h.results) THEN h.results[i]
                                  ELSE EmptyDict],
                   !.chg = @ \cup {"results"}]
    ELSE h

(* `feature.results[index][name] = value` at position p.                   *)
StoreResult(h, p, name, v) ==
    [h EXCEPT !.results[p] = [nm \in (DOMAIN h.results[p]) \cup {name} |->
                                IF nm = name THEN v ELSE h.results[p][nm]],
              !.chg_keys = @ \cup {<<p, name>>}]

(* `index = kwargs.get('index') or -1` *)
CacheIndex(kw) == IF kw.ikw = NoIndex \/ kw.ikw = 0 THEN -1 ELSE kw.ikw

(* the `index` parameter the accessor body itself receives *)
FnIndex(kw) == IF kw.ipos # NoIndex THEN kw.ipos
               ELSE IF kw.ikw # NoIndex THEN kw.ikw ELSE -1

(* The value named by a local variable of the code: `The({ e(x) : x \in   *)
(* {v} })` is e with x standing for the value of v, computed once, as an   *)
(* assignment `x = v` followed by e.                                       *)
The(S) == CHOOSE x \in S : TRUE

(* a depth guard that gives up quietly *)
RecursionLimit_return(w, h) == Ok(w, h, FALSE)

(* the interpreter refuses a call nested deeper than its recursion limit   *)
RecursionLimit(w, h) == Raise(w, h, "RecursionError")

RECURSIVE Wrapped(_, _, _, _, _)
RECURSIVE TouchParents(_, _, _, _, _, _)

(* the loop of is_stale over self.parents.values() *)
TouchParents(w, hs, i, rid, acc, d) ==
    IF i > Len(hs) THEN [w |-> w, exc |-> NoExc, ret |-> acc]
    ELSE The({ IF r.exc # NoExc THEN [w |-> r.w, exc |-> r.exc, ret |-> acc]
               ELSE TouchParents(r.w, hs, i + 1, rid, acc \/ r.ret, d)
               : r \in {Wrapped(w, hs[i], "touch", TouchKw(rid), d + 1)} })

(* Feature.is_stale(record) *)
IsStale(w, h, rid, d) ==
    The({ The({ IF t.exc # NoExc THEN Raise(t.w, h, t.exc)
                ELSE IF Expired(t.w, h).exc # NoExc
                     THEN Raise(t.w, h, Expired(t.w, h).exc)
                ELSE Ok(t.w, ConsumeSwitch(h),
                        t.ret \/ Expired(t.w, h).val \/ h.sw)
                : t \in {TouchParents(w, hs, 1, rid, FALSE, d)} })
          : hs \in {Parents(w.db, h)} })

(* the time the update action of h takes *)
Elapse(w, h) ==
    IF h.id \in w.slow THEN [w EXCEPT !.clock = @ + 1] ELSE w

(* The measurement itself: config.performMeasurement() writes the next log *)
(* file, or raises.  For a plain Feature subclass there is no log.         *)
Measure(w, h) ==
    IF h.id \in w.fail
    THEN Raise(Emit(w, "fail", h.id, ""), h, "InstrumentError")
    ELSE Ok(Emit(IF kind[h.id] = "Feature" THEN Elapse(w, h)
                 ELSE [Elapse(w, h) EXCEPT !.logs[h.id] = @ + 1],
                 "updated", h.id, ""), h, FALSE)

SpecParent(h) ==
    {i \in 1..Len(h.parent_ids) : h.parent_ids[i].key = "spec"}

(* feature(initiating_call=...): __call__ of the feature's class.          *)
UpdateAction(w, h, d) ==
    The({ IF kind[h.id] = "Rabi"
          THEN IF SpecParent(h) = {} THEN Raise(w1, h, "KeyError")
               ELSE The({ IF r.exc # NoExc THEN Raise(r.w, h, r.exc)
                          ELSE Measure(r.w, h)
                          : r \in {Wrapped(w1,
                                     Parents(w1.db, h)[CHOOSE i \in SpecParent(h) : TRUE],
                                     "center_freq", ClientKw, d + 1)} })
          ELSE Measure(w1, h)
          : w1 \in {Emit(w, "update", h.id, "")} })

(* the body of an accessor (the function given to @result) *)
ResultFn(w, h, name, kw, d) ==
    IF name = "fit"
    THEN LET g == LogGet(w.logs[h.id], FnIndex(kw))
         IN IF g.exc # NoExc THEN Raise(w, h, g.exc)
            ELSE Ok(Emit(w, "compute", h.id, name), h, g.idx)
    ELSE The({ IF r.exc # NoExc THEN r
               ELSE Ok(Emit(r.w, "compute", h.id, name), r.h, r.ret)
               : r \in {Wrapped(w, h, "fit",
                                [ClientKw EXCEPT !.ipos = FnIndex(kw)], d + 1)} })

(* result.wrapped_fn: the cache around an accessor *)
ResultBody(w, h, name, kw, d) ==
    LET c0 == CacheIndex(kw)
        index == IF c0 < 0 THEN w.logs[h.id] + c0 ELSE c0
    IN The({ LET p == PyPos(Len(h1.results), index)
             IN IF p # 0 /\ name \in DOMAIN h1.results[p]
                THEN Ok(w, h1, h1.results[p][name])
                ELSE The({ LET q == PyPos(Len(r.h.results), index)
                           IN IF r.exc # NoExc THEN r
                              ELSE IF q = 0 THEN Raise(r.w, r.h, "IndexError")
                              ELSE The({ Ok(sv.w, sv.h, r.ret)
                                         : sv \in {Save(r.w, StoreResult(r.h, q, name, r.ret))} })
                           : r \in {ResultFn(w, h1, name, kw, d)} })
             : h1 \in {PadResults(h, index)} })

(* hasattr(feature, '__pre_hook__'), hasattr(feature, '__post_hook__'):   *)
(* include_feature sets the attributes on the project handle only.         *)
HasPreHook(h) == h.proj /\ pre_hook[h.id]

HasPostHook(h) == h.proj /\ post_hook[h.id]

(* `feature.__pre_hook__(record)` before the try statement *)
PreHook(w, h) ==
    IF ~HasPreHook(h) THEN Ok(w, h, FALSE)
    ELSE IF h.id \in w.prefail
         THEN Raise(Emit(w, "pre_raise", h.id, ""), h, "HookError")
    ELSE Ok(Emit(w, "pre", h.id, ""), h, FALSE)

(* `feature.__post_hook__(record)` in the finally clause, after conclude   *)
PostHook(w, h) ==
    IF ~HasPostHook(h) THEN Ok(w, h, FALSE)
    ELSE IF h.id \in w.postfail
         THEN Raise(Emit(w, "post_raise", h.id, ""), h, "HookError")
    ELSE Ok(Emit(w, "post", h.id, ""), h, FALSE)

(* the wrapped method itself, called at feature.py line 109 *)
Body(w, h, m, kw, d) ==
    IF m = "touch" THEN Ok(Emit(w, "body", h.id, m), h, kw.stale)
    ELSE The({ ResultBody(w1, h, m, kw, d) : w1 \in {Emit(w, "body", h.id, m)} })

(* what the caller of wrapped_fn gets once the finally clause has run: the *)
(* exception of the post-hook if it raised, else the outcome of            *)
(* `return return_value`                                                   *)
Outcome(post, bound) ==
    IF post.exc # NoExc THEN post.exc ELSE ReturnValue(bound)

(* refresh.wrapped_fn, read from its last statement to its first: the call *)
(* record is opened (w1) and the pre-hook runs (pre); is_stale decides     *)
(* (s), the update action runs if stale (u), then the wrapped method (b);  *)
(* the feature is saved when nothing raised (sv), the record is concluded  *)
(* and the post-hook runs (post).  An exception of the pre-hook leaves     *)
(* wrapped_fn before the try statement.                                    *)
Wrapped(w0, h0, m, kw, d) ==
    IF d > MaxDepth THEN RecursionLimit(w0, h0)
    ELSE
    The({ The({ The({
      IF pre.exc # NoExc THEN pre
      ELSE
      The({ The({ The({ The({ The({
        [w |-> post.w,
         h |-> sv.h,
         exc |-> Outcome(post, b.exc = NoExc),
         ret |-> b.ret]
        : post \in {PostHook(Conclude(sv.w, Len(w.records) + 1,
                                      IF b.exc = NoExc THEN "DONE"
                                      ELSE "FAILED"), sv.h)} })
        : sv \in {IF b.exc # NoExc THEN [w |-> b.w, h |-> b.h]
                  ELSE Save(b.w, b.h)} })
        : b \in {IF u.exc # NoExc THEN u
                 ELSE Body(u.w, u.h, m,
                           [kw EXCEPT !.stale = IF kw.has_stale THEN s.ret
                                                ELSE FALSE], d)} })
        : u \in {IF s.exc # NoExc THEN s
                 ELSE IF s.ret THEN UpdateAction(s.w, s.h, d) ELSE s} })
        : s \in {IsStale(pre.w, h, Len(w.records) + 1, d)} })
      : pre \in {PreHook(w1, h)} })
      : w1 \in {Emit([w EXCEPT !.records =
                        Append(@, NewRecord(w, h.id, m, kw.init))],
                     "open", h.id, m)} })
      : w \in {w0}, h \in {h0} })


(* ------------------------------- actions ------------------------------ *)
(* what the last operation was, the state it started from and its events   *)
OpRecord(op, node, arg, r) ==
    [seq |-> last.seq + 1, op |-> op, node |-> node, arg |-> arg,
     pre_mem |-> mem, pre_db |-> db, pre_logs |-> logs,
     pre_nrec |-> Len(records), trace |-> r.w.trace, exc |-> r.exc]

(* the features in `fail` raise in their update action, those in `slow`    *)
(* take one unit of time to measure, the pre-hooks of those in `prefail`   *)
(* and the post-hooks of those in `postfail` raise                         *)
WorldWith(fail, slow, prefail, postfail) ==
    [db |-> db, logs |-> logs, records |-> records, clock |-> clock,
     trace |-> <<>>, fail |-> fail, slow |-> slow,
     prefail |-> prefail, postfail |-> postfail]

World(fail) == WorldWith(fail, {}, {}, {})

Commit(n, r) ==
    /\ mem' = [mem EXCEPT ![n] = r.h]
    /\ db' = r.w.db
    /\ logs' = r.w.logs
    /\ records' = r.w.records
    /\ clock' = r.w.clock
    /\ UNCHANGED <<kind, hook, pre_hook, post_hook, declared, srv, tool>>

(* Feature.set_expired(is_expired) on the project handle of n *)
SetExpired(n, b) ==
    /\ last.seq < MaxOps
    /\ \E r \in {Save(World({}), SetSwitch(mem[n], b))} :
          /\ Commit(n, [w |-> r.w, h |-> r.h])
          /\ last' = OpRecord("set_expired", n, b, [w |-> r.w, exc |-> NoExc])

(* a client calls n.touch() on the project handle; the update actions of   *)
(* the features in `fail` raise.                                           *)
Touch(n, fail) ==
    /\ last.seq < MaxOps
    /\ \E r \in {Wrapped(World(fail), mem[n], "touch", ClientKw, 0)} :
          /\ Commit(n, r)
          /\ last' = OpRecord("touch", n, FALSE, r)

(* a client calls the accessor m of n, without an index *)
Access(n, m, fail) ==
    /\ last.seq < MaxOps
    /\ kind[n] # "Feature"
    /\ \E r \in {Wrapped(World(fail), mem[n], m, ClientKw, 0)} :
          /\ Commit(n, r)
          /\ last' = OpRecord(m, n, FALSE, r)

(* time passes *)
Tick ==
    /\ last.seq < MaxOps
    /\ clock < MaxClock
    /\ clock' = clock + 1
    /\ last' = OpRecord("tick", "a", FALSE, [w |-> World({}), exc |-> NoExc])
    /\ UNCHANGED <<kind, hook, pre_hook, post_hook, db, mem, logs, records,
                   declared, srv, tool>>

(* the hook declarations of the project file: at most one feature, the    *)
(* root `a` or the sink `n`, declares an expiration_hook.                  *)
Hookings == {hk \in [Nodes -> Policies] :
                /\ Cardinality({x \in Nodes : hk[x] # "none"}) <= 1
                /\ \A x \in Nodes : hk[x] # "none" => x \in {"a", "n"}}

(* LabberFeature.expired never reads the hook of a feature, so the Labber  *)
(* projects are taken with a hook on the sink only.                        *)
HookingsOf(p) ==
    IF p.kind["a"] = "Feature" THEN Hookings
    ELSE {hk \in Hookings : hk["a"] = "none"}

ParentIdsOf(d, x) == {d[x].parent_ids[i].id : i \in 1..Len(d[x].parent_ids)}

RECURSIVE Reach(_, _, _)
Reach(d, S, k) ==
    IF k = 0 THEN S
    ELSE Reach(d, S \cup UNION {ParentIdsOf(d, y) : y \in S}, k - 1)

AncestorsOrSelf(d, x) == Reach(d, {x}, Cardinality(Nodes))

Ancestors(d, x) ==
    Reach(d, ParentIdsOf(d, x), Cardinality(Nodes))

(* the update actions that raise during one operation on x: none, or that  *)
(* of one feature the operation can reach                                  *)
Failures(x) == {{}} \cup {{y} : y \in AncestorsOrSelf(db, x)}

ColdDb(p) == [x \in Nodes |-> [NewDoc EXCEPT !.parent_ids = p.graph[x]]]

ProjectHandle(d, x) == [Load(d, x) EXCEPT !.proj = TRUE]

InitRecord(d, l, nrec) ==
    [seq |-> 0, op |-> "init", node |-> "a", arg |-> FALSE,
     pre_mem |-> [x \in Nodes |-> ProjectHandle(d, x)],
     pre_db |-> d, pre_logs |-> l, pre_nrec |-> nrec,
     trace |-> <<>>, exc |-> NoExc]

(* Project.__init__ on an empty database: include_feature creates every    *)
(* feature, attaches its parents and its hooks.                            *)
Init ==
    \E p \in Projects : \E hk \in HookingsOf(p) :
        /\ kind = p.kind
        /\ declared = p.graph
        /\ srv = IdleServer
        /\ tool = NoTool
        /\ hook = hk
        /\ pre_hook = [x \in Nodes |-> FALSE]
        /\ post_hook = [x \in Nodes |-> FALSE]
        /\ db = ColdDb(p)
        /\ mem = [x \in Nodes |-> ProjectHandle(ColdDb(p), x)]
        /\ logs = [x \in Nodes |-> 0]
        /\ records = <<>>
        /\ clock = 0
        /\ last = InitRecord(ColdDb(p), [x \in Nodes |-> 0], 0)

(* A first session: n.touch() on the new project, after which the program  *)
(* is started again and Project.__init__ finds every feature in the        *)
(* database (include_feature gets it with objects.get and attaches the     *)
(* hooks to the new object).                                               *)
FirstSession ==
    /\ last.op = "init"
    /\ records = <<>>
    /\ \E r \in {Wrapped(World({}), mem["n"], "touch", ClientKw, 0)} :
          /\ db' = r.w.db
          /\ mem' = [x \in Nodes |-> ProjectHandle(r.w.db, x)]
          /\ logs' = r.w.logs
          /\ records' = r.w.records
          /\ clock' = r.w.clock
          /\ last' = InitRecord(r.w.db, r.w.logs, Len(r.w.records))
          /\ UNCHANGED <<kind, hook, pre_hook, post_hook, declared, srv, tool>>

Next ==
    \/ \E x \in Nodes, b \in BOOLEAN : SetExpired(x, b)
    \/ \E x \in Nodes : \E f \in Failures(x) : Touch(x, f)
    \/ \E x \in Nodes, m \in ResultNames : \E f \in {{}, {x}} : Access(x, m, f)
    \/ Tick
    \/ FirstSession

Spec == Init /\ [][Next]_vars


(* -------------------- reading the last operation ---------------------- *)
IsPass(l) == l.op \in {"touch"} \cup ResultNames

(* positions of the events e of feature x in a trace *)
EventsOf(tr, e, x) == {i \in 1..Len(tr) : tr[i].e = e /\ tr[i].id = x}

(* features whose update action was invoked *)
Updated(tr) == {x \in Nodes : EventsOf(tr, "update", x) # {}}

(* features whose update action raised *)
Failed(tr) == {x \in Nodes : EventsOf(tr, "fail", x) # {}}

(* the first invocation of x's update action precedes the first of y's *)
UpdatedBefore(tr, x, y) ==
    /\ x \in Updated(tr)
    /\ y \in Updated(tr)
    /\ \E i \in EventsOf(tr, "update", x) :
         \A j \in EventsOf(tr, "update", y) : i < j

(* the policy declared for x, evaluated on the records rs at time now:     *)
(* EXPIRED or not.  A timeout policy with no concluded record to refer to  *)
(* is not EXPIRED.                                                         *)
PolicyExpired(x, rs, now) ==
    \/ hook[x] = "always_expired"
    \/ /\ hook[x] = "timeout"
       /\ TimeoutHook(rs, now, x).exc = NoExc
       /\ TimeoutHook(rs, now, x).val = "EXPIRED"

(* effective_expired(x) in the state the last operation started from; the  *)
(* override flag counts as set when the project handle or the document     *)
(* says so.  Plain features keep no results.                               *)
EffExpiredPre(x) ==
    \/ last.pre_mem[x].sw
    \/ last.pre_db[x].sw
    \/ PolicyExpired(x, SubSeq(records, 1, last.pre_nrec), clock)
    \/ (kind[x] # "Feature" /\ last.pre_logs[x] = 0)

(* handle and document agreed on every override flag when the last         *)
(* operation started                                                       *)
FlagsAgreedPre == \A x \in Nodes : last.pre_mem[x].sw = last.pre_db[x].sw

(* C1: in a refresh pass started on N, update_action is invoked on a node  *)
(* M that is N or an ancestor of N if and only if M or an ancestor of M    *)
(* was effective-expired when the pass started (so the diamond with only   *)
(* A expired updates A, P1, P2 and N).  Stated for passes that end without *)
(* an error and start with handles and documents in agreement.             *)
C1_UpdatedIffExpiredAncestor ==
    (IsPass(last) /\ last.exc = NoExc /\ FlagsAgreedPre) =>
        \A M \in AncestorsOrSelf(db, last.node) :
            (M \in Updated(last.trace))
              <=> (\E X \in AncestorsOrSelf(db, M) : EffExpiredPre(X))

(* C3: within one refresh pass the update_action of every node is invoked  *)
(* at most once.                                                           *)
C3_UpdatedAtMostOnce ==
    IsPass(last) =>
        \A x \in Nodes : Cardinality(EventsOf(last.trace, "update", x)) <= 1

(* C4: when neither N nor any ancestor of N is effective-expired, a        *)
(* refresh of N performs no update action on any node.                     *)
C4_FreshMeansNoUpdate ==
    (IsPass(last) /\ \A X \in AncestorsOrSelf(db, last.node) : ~EffExpiredPre(X))
        => Updated(last.trace) = {}

(* a Labber feature with ancestors, every one of them measured before, was *)
(* refreshed and nothing was expired                                       *)
C4_Witness ==
    /\ IsPass(last)
    /\ kind[last.node] # "Feature"
    /\ Ancestors(db, last.node) # {}
    /\ \A X \in AncestorsOrSelf(db, last.node) : ~EffExpiredPre(X)
    /\ Updated(last.trace) = {}


(* a refresh-wrapped call m on the project handle of x, made now with no   *)
(* update action raising                                                   *)
RefreshNow(x, m) == Wrapped(World({}), mem[x], m, ClientKw, 0)

(* the same call made right after A.set_expired(True) *)
RefreshAfterSetExpired(A, x, m) ==
    The({ Wrapped([s.w EXCEPT !.trace = <<>>], mem[x], m, ClientKw, 0)
          : s \in {Save(World({}), SetSwitch(mem[A], TRUE))} })

(* C2: for any node N with an ancestor A on which set_expired(True) has    *)
(* been called, a refresh of N invokes update_action on A and on N, on A   *)
(* before N.  Stated for refreshes that end without an error.              *)
C2_OverridePropagates ==
    \A A \in Nodes, N \in Nodes :
        A \in Ancestors(db, N) =>
            \A r \in {RefreshAfterSetExpired(A, N, "touch")} :
                r.exc = NoExc => UpdatedBefore(r.w.trace, A, N)

(* the last operation was a refresh of N that raised nothing and started   *)
(* with the override flag of N's handle set                                *)
ConsumedOverride ==
    IsPass(last) /\ last.exc = NoExc /\ last.pre_mem[last.node].sw

(* C5 as claimed: after a successful refresh of N whose override flag was  *)
(* set, the flag is false and a second refresh of N right away performs no *)
(* update action.                                                          *)
C5_SecondRefreshIdle ==
    ConsumedOverride =>
        /\ ~mem[last.node].sw
        /\ ~db[last.node].sw
        /\ \A r \in {RefreshNow(last.node, last.op)} : Updated(r.w.trace) = {}

(* C5 as amended: the same, provided the expiration hook attached to N     *)
(* does not evaluate to EXPIRED at the second refresh.                     *)
C5_SecondRefreshIdleUnlessPolicy ==
    ConsumedOverride =>
        /\ ~mem[last.node].sw
        /\ ~db[last.node].sw
        /\ (~PolicyExpired(last.node, records, clock)
              => \A r \in {RefreshNow(last.node, last.op)} :
                     Updated(r.w.trace) = {})

(* a feature with ancestors had its override consumed by a refresh that    *)
(* updated it, and its policy is not EXPIRED now                           *)
C5_Witness ==
    /\ ConsumedOverride
    /\ last.node \in Updated(last.trace)
    /\ Ancestors(db, last.node) # {}
    /\ ~PolicyExpired(last.node, records, clock)

(* C6: if update_action of N raises during a refresh of N, the length of   *)
(* N's results and N's override flag, on the caller's handle and in the    *)
(* database, are what they were before, and the CallRecord of the call is  *)
(* FAILED with a stop time.                                                *)
C6_FailureKeepsState ==
    (IsPass(last) /\ last.node \in Failed(last.trace)) =>
        /\ Len(mem[last.node].results) = Len(last.pre_mem[last.node].results)
        /\ Len(db[last.node].results) = Len(last.pre_db[last.node].results)
        /\ mem[last.node].sw = last.pre_mem[last.node].sw
        /\ db[last.node].sw = last.pre_db[last.node].sw
        /\ records[last.pre_nrec + 1].status = "FAILED"
        /\ records[last.pre_nrec + 1].stop # NoTime

(* C7: if an update_action raises InstrumentError during a refresh, the    *)
(* refresh-wrapped call raises InstrumentError to its caller.              *)
C7_ErrorKindPropagates ==
    (IsPass(last) /\ Failed(last.trace) # {}) => last.exc = "InstrumentError"

(* C8: once the update_action of A has failed in a pass on N, no           *)
(* update_action of a descendant of A (N included) is invoked later in the *)
(* pass and the wrapped method of N is not executed.                       *)
C8_FailureAbortsPass ==
    IsPass(last) =>
        \A i \in 1..Len(last.trace) :
            last.trace[i].e = "fail" =>
                \A j \in (i + 1)..Len(last.trace) :
                    /\ ~(/\ last.trace[j].e = "update"
                         /\ last.trace[i].id \in Ancestors(db, last.trace[j].id))
                    /\ ~(/\ last.trace[j].e = "body"
                         /\ last.trace[j].id = last.node
                         /\ last.trace[i].id \in Ancestors(db, last.node))

(* an ancestor of N failed after it was reached through a stale chain *)
C8_Witness ==
    /\ IsPass(last)
    /\ \E A \in Failed(last.trace) : A \in Ancestors(db, last.node)
    /\ last.exc # NoExc
    /\ last.node \notin Updated(last.trace)

(* C9: after a refresh of N in which the update_action of F failed, a      *)
(* second refresh of N with nothing else changed invokes update_action on  *)
(* F and on every dependent of F down to N.                                *)
C9_FailedNodeRetried ==
    IsPass(last) =>
        \A r \in {RefreshNow(last.node, last.op)} :
            \A F \in Failed(last.trace) :
                \A D \in AncestorsOrSelf(db, last.node) :
                    F \in AncestorsOrSelf(db, D) => D \in Updated(r.w.trace)

(* C10: the expiration check of a node is true exactly when its override   *)
(* flag is set, or its policy hook evaluates to EXPIRED, or it has no      *)
(* recorded result (Labber features; a plain Feature records none).        *)
C10_ExpiredIsDisjunction ==
    \A x \in Nodes :
        HookEval(World({}), mem[x]).exc = NoExc =>
            (Expired(World({}), mem[x]).val
               <=> \/ mem[x].sw
                   \/ HookEval(World({}), mem[x]).val = "EXPIRED"
                   \/ (kind[x] # "Feature" /\ logs[x] = 0))

(* C11: after a refresh pass that ends without an error, every node whose  *)
(* update_action ran has exactly one more entry in its results sequence    *)
(* than before the pass, and the results of every other node are as long   *)
(* as before.  Stated for the features that keep results.                  *)
C11_OneSnapshotPerUpdate ==
    (IsPass(last) /\ last.exc = NoExc) =>
        \A x \in Nodes :
            kind[x] # "Feature" =>
                Len(db[x].results) =
                    Len(last.pre_db[x].results)
                      + (IF x \in Updated(last.trace) THEN 1 ELSE 0)

(* C12: when a refresh of N has consumed the override of its parent A, the *)
(* flag of A reads false in the database and through the project handle of *)
(* A, and a refresh of A through the project handle updates nothing.       *)
C12_HandlesAgree ==
    (IsPass(last) /\ last.exc = NoExc) =>
        \A A \in ParentIdsOf(db, last.node) :
            (last.pre_db[A].sw /\ A \in Updated(last.trace)) =>
                /\ ~db[A].sw
                /\ ~mem[A].sw
                /\ \A r \in {RefreshNow(A, "touch")} : Updated(r.w.trace) = {}

(* the concluded CallRecords of feature x *)
ConcludedOf(rs, x) ==
    {i \in 1..Len(rs) : rs[i].feature = x /\ rs[i].stop # NoTime}

(* time elapsed at `now` since the latest stop time among the concluded    *)
(* records of x (which has at least one)                                   *)
SinceLastConcluded(rs, now, x) ==
    now - rs[CHOOSE i \in ConcludedOf(rs, x) :
                 \A j \in ConcludedOf(rs, x) : rs[j].stop <= rs[i].stop].stop

(* the timeout hook of x as is_stale evaluates it now: the record of the   *)
(* call in progress has been set up and is not concluded                   *)
HookAtRefresh(x) ==
    TimeoutHook(Append(records, NewRecord(World({}), x, "touch", NoRecord)),
                clock, x)

(* C13: with the timeout policy a node is EXPIRED exactly when the time    *)
(* since the stop time of its most recent concluded CallRecord is strictly *)
(* greater than the duration; the unconcluded record of the call in        *)
(* progress is never the reference (without a concluded record the node is *)
(* FRESH).                                                                 *)
C13_TimeoutStrict ==
    \A x \in Nodes :
        hook[x] = "timeout" =>
            \A e \in {HookAtRefresh(x)} :
                /\ e.exc = NoExc
                /\ e.val = "EXPIRED"
                     <=> /\ ConcludedOf(records, x) # {}
                         /\ SinceLastConcluded(records, clock, x) > TimeoutDelta

(* the CallRecords of feature x stored by the last operation *)
NewRecordsOf(x) ==
    {i \in (last.pre_nrec + 1)..Len(records) : records[i].feature = x}

HookProjects == { [graph |-> DiamondGraph, kind |-> AllKind("Feature")],
                  [graph |-> ChainGraph, kind |-> RabiKinds] }

HookSets == {{}, {"a", "n"}}

InitHooks ==
    \E p \in HookProjects, pre \in HookSets, post \in HookSets :
        /\ kind = p.kind
        /\ declared = p.graph
        /\ srv = IdleServer
        /\ tool = NoTool
        /\ hook = [x \in Nodes |-> "none"]
        /\ pre_hook = [x \in Nodes |-> x \in pre]
        /\ post_hook = [x \in Nodes |-> x \in post]
        /\ db = ColdDb(p)
        /\ mem = [x \in Nodes |-> ProjectHandle(ColdDb(p), x)]
        /\ logs = [x \in Nodes |-> 0]
        /\ records = <<>>
        /\ clock = 0
        /\ last = InitRecord(ColdDb(p), [x \in Nodes |-> 0], 0)

(* what goes wrong during one call on x: nothing, the update action of x   *)
(* raises, it takes time, the pre-hook raises, the post-hook raises, or    *)
(* the update action and the post-hook both raise                          *)
Mishap(fail, slow, prefail, postfail) ==
    [fail |-> fail, slow |-> slow, prefail |-> prefail, postfail |-> postfail]

Mishaps(x) ==
    { Mishap({}, {}, {}, {}), Mishap({x}, {}, {}, {}), Mishap({}, {x}, {}, {}),
      Mishap({}, {}, {x}, {}), Mishap({}, {}, {}, {x}), Mishap({x}, {}, {}, {x}) }

(* a client calls n.touch() on the project handle *)
HookedTouch(n, c) ==
    /\ last.seq < MaxOps
    /\ c.slow = {} \/ clock < MaxClock
    /\ \E r \in {Wrapped(WorldWith(c.fail, c.slow, c.prefail, c.postfail),
                          mem[n], "touch", ClientKw, 0)} :
          /\ Commit(n, r)
          /\ last' = OpRecord("touch", n, FALSE, r)

NextHooks ==
    \/ \E x \in Nodes, b \in BOOLEAN : SetExpired(x, b)
    \/ \E x \in Nodes : \E c \in Mishaps(x) : HookedTouch(x, c)
    \/ Tick

SpecHooks == InitHooks /\ [][NextHooks]_vars

Committed(tr, A, j) ==
    \E i1 \in EventsOf(tr, "updated", A), i2 \in EventsOf(tr, "save", A),
       i3 \in EventsOf(tr, "conclude", A) :
        i1 < i2 /\ i2 < i3 /\ i3 < j /\ tr[i3].m = "DONE"

(* C16: in a pass, when the update_action of a node D begins, every stale  *)
(* ancestor A of D (A or an ancestor of A was effective-expired when the   *)
(* pass started) has been committed: its update_action has returned, it    *)
(* has been saved with its override flag cleared and its CallRecord is     *)
(* concluded DONE.  Stated for passes that start with handles and          *)
(* documents in agreement.                                                 *)
C16_AncestorsCommittedFirst ==
    (IsPass(last) /\ FlagsAgreedPre) =>
        \A D \in Nodes :
            \A j \in EventsOf(last.trace, "update", D) :
                \A A \in Ancestors(db, D) :
                    (\E X \in AncestorsOrSelf(db, A) : EffExpiredPre(X)) =>
                        Committed(last.trace, A, j) /\ ~db[A].sw

C18_PreHookFailureConcluded ==
    (IsPass(last) /\ EventsOf(last.trace, "pre_raise", last.node) # {}) =>
        /\ Updated(last.trace) = {}
        /\ last.exc = "HookError"
        /\ records[last.pre_nrec + 1].status = "FAILED"
        /\ records[last.pre_nrec + 1].stop # NoTime

(* C19: the post-hook of a node runs after every refresh of the node that  *)
(* reaches its try statement, on success and on failure, after the         *)
(* CallRecord is concluded; if it raises, the caller of the refresh still  *)
(* gets the return value or the primary error, and the status of the       *)
(* CallRecord stays as concluded.                                          *)
C19_PostHookContained ==
    (IsPass(last) /\ post_hook[last.node]
       /\ EventsOf(last.trace, "pre_raise", last.node) = {}) =>
        /\ \E j \in EventsOf(last.trace, "post", last.node)
                      \cup EventsOf(last.trace, "post_raise", last.node) :
              /\ j = Len(last.trace)
              /\ last.trace[j - 1].e = "conclude"
              /\ last.trace[j - 1].id = last.node
        /\ EventsOf(last.trace, "post_raise", last.node) # {} =>
              /\ last.exc # "HookError"
              /\ records[last.pre_nrec + 1].status
                    = (IF Failed(last.trace) = {} THEN "DONE" ELSE "FAILED")


(* ------------------ accessors called with an index -------------------- *)
(* The Labber projects; a client calls the accessors with an index, given  *)
(* by keyword (`a.fit(index=i)`) or by position (`a.fit(i)`).              *)
IndexProjects == { [graph |-> DiamondGraph, kind |-> AllKind("Labber")],
                   [graph |-> ChainGraph, kind |-> RabiKinds] }

Indices == {-1, 0, 1}

Passings == {"kw", "pos"}

InitIndex ==
    \E p \in IndexProjects :
        /\ kind = p.kind
        /\ declared = p.graph
        /\ srv = IdleServer
        /\ tool = NoTool
        /\ hook = [x \in Nodes |-> "none"]
        /\ pre_hook = [x \in Nodes |-> FALSE]
        /\ post_hook = [x \in Nodes |-> FALSE]
        /\ db = ColdDb(p)
        /\ mem = [x \in Nodes |-> ProjectHandle(ColdDb(p), x)]
        /\ logs = [x \in Nodes |-> 0]
        /\ records = <<>>
        /\ clock = 0
        /\ last = InitRecord(ColdDb(p), [x \in Nodes |-> 0], 0)

(* the keyword arguments and the positional index of result.__call__ *)
IndexKw(how, i) ==
    [ClientKw EXCEPT !.ikw = IF how = "kw" THEN i ELSE NoIndex,
                     !.ipos = IF how = "pos" THEN i ELSE NoIndex]

(* a client calls the accessor m of n with the index i *)
AccessAt(n, m, how, i) ==
    /\ last.seq < MaxOps
    /\ \E r \in {Wrapped(World({}), mem[n], m, IndexKw(how, i), 0)} :
          /\ Commit(n, r)
          /\ last' = OpRecord(m, n, [how |-> how, index |-> i], r)

NextIndex ==
    \/ \E x \in Nodes, b \in BOOLEAN : SetExpired(x, b)
    \/ \E x \in Nodes, m \in ResultNames, how \in Passings, i \in Indices :
          AccessAt(x, m, how, i)
    \/ FirstSession

SpecIndex == InitIndex /\ [][NextIndex]_vars

(* the snapshot that index i denotes among nlogs snapshots *)
SnapshotOf(nlogs, i) == IF i < 0 THEN nlogs + i ELSE i

(* C20: an accessor call a(index=i) or a(i) that returns has first opened  *)
(* the refresh of its feature, and afterwards results[i][a] of the handle  *)
(* holds a value computed from the raw data of snapshot i (index 0 being   *)
(* the first snapshot); no value stored under a snapshot was computed from *)
(* the raw data of another snapshot.                                       *)
C20_IndexedAccessor ==
    (last.op \in ResultNames /\ last.exc = NoExc) =>
        \A x \in {last.node} : \A s \in {SnapshotOf(logs[x], last.arg.index)} :
            /\ last.trace[1] = [e |-> "open", id |-> x, m |-> last.op]
            /\ s >= 0 /\ s < Len(mem[x].results)
            /\ last.op \in DOMAIN mem[x].results[s + 1]
            /\ \A p \in 1..Len(mem[x].results) :
                  \A nm \in DOMAIN mem[x].results[p] :
                      mem[x].results[p][nm] = p - 1

(* the accessor m of x called now with its default index, after           *)
(* x.set_expired(True) when `expire`                                       *)
AccessNow(x, m, expire) ==
    IF expire
    THEN The({ Wrapped([s.w EXCEPT !.trace = <<>>], s.h, m, ClientKw, 0)
               : s \in {Save(World({}), SetSwitch(mem[x], TRUE))} })
    ELSE Wrapped(World({}), mem[x], m, ClientKw, 0)

(* the accessor m called right after the call whose outcome is r, on the   *)
(* same handle                                                             *)
AccessNext(r, m) == Wrapped([r.w EXCEPT !.trace = <<>>], r.h, m, ClientKw, 0)

(* C21: when an accessor call on a node has returned, a second accessor    *)
(* call on the same node, made with nothing in between, returns too, runs  *)
(* no update_action and creates no snapshot (at most one update_action of  *)
(* the node for the two calls together), and the value it returns is       *)
(* derived from the snapshot the value of the first call was derived from. *)
C21_SameMeasurement ==
    \A x \in {y \in Nodes : kind[y] # "Feature"} :
        \A m1 \in ResultNames, m2 \in ResultNames, expire \in BOOLEAN :
            \A r1 \in {AccessNow(x, m1, expire)} :
                r1.exc = NoExc =>
                    \A r2 \in {AccessNext(r1, m2)} :
                        /\ r2.exc = NoExc
                        /\ Updated(r2.w.trace) = {}
                        /\ r2.w.logs = r1.w.logs
                        /\ Cardinality(EventsOf(r1.w.trace, "update", x)) <= 1
                        /\ r2.ret = r1.ret

(* C22: an accessor call whose index is outside the snapshots recorded for *)
(* the node (index >= number of snapshots, or index < -number) fails with  *)
(* an index error, returns no value and leaves the length of the results   *)
(* sequence of the node as it was.                                         *)
C22_OutOfRangeFails ==
    (last.op \in ResultNames
       /\ (last.arg.index >= logs[last.node] \/ last.arg.index < -logs[last.node])) =>
        /\ last.exc = "IndexError"
        /\ Len(mem[last.node].results) = Len(last.pre_mem[last.node].results)
        /\ Len(db[last.node].results) = Len(last.pre_db[last.node].results)


(* ------------------------ CallRecord identifiers ---------------------- *)
(* CallRecord.__gen_uuid: the digest of the feature id, the start time     *)
(* and, when there is one, the uuid of the initiating call.  The digest is *)
(* taken as the sequence of what it digests: equal inputs give equal       *)
(* identifiers and different inputs different ones.                        *)
RECURSIVE Uuid(_, _)
Uuid(recs, i) ==
    <<recs[i].feature, recs[i].start>>
        \o (IF recs[i].init = NoRecord THEN <<>> ELSE Uuid(recs, recs[i].init))

(* the primary keys of the stored CallRecord documents *)
StoredUuids(recs) == {Uuid(recs, i) : i \in 1..Len(recs)}

StartsWith(u, pre) == Len(pre) <= Len(u) /\ SubSeq(u, 1, Len(pre)) = pre

(* the fields of the CallRecord document, with the names mongoengine gives *)
(* the primary key                                                         *)
RecordFields == {"initiating_call", "stack_level", "feature", "method", "uuid",
                 "start_time", "stop_time", "user", "hostname", "exit_status",
                 "info", "pk", "id"}

(* CallRecord.objects(<field>__istartswith=pre), once evaluated: the field *)
(* name is resolved against the document class first.                      *)
QueryStartsWith(recs, field, pre) ==
    IF field \notin RecordFields
    THEN [exc |-> "InvalidQueryError", hits |-> {}]
    ELSE IF field \in {"uuid", "pk", "id"}
    THEN [exc |-> NoExc, hits |-> {u \in StoredUuids(recs) : StartsWith(u, pre)}]
    ELSE [exc |-> NoExc, hits |-> {}]

get_records_by_uid_pre(recs, uid_pre) == QueryStartsWith(recs, "uid", uid_pre)

(* dypy.record(uid_pre): the uuid of the record returned, or the exception *)
record(recs, uid_pre) ==
    The({ IF matches.exc # NoExc THEN [exc |-> matches.exc, ret |-> <<>>]
          ELSE IF Cardinality(matches.hits) > 1
               THEN [exc |-> "MultipleObjectsReturned", ret |-> <<>>]
          ELSE IF matches.hits = {} THEN [exc |-> "DoesNotExist", ret |-> <<>>]
          ELSE [exc |-> NoExc, ret |-> CHOOSE u \in matches.hits : TRUE]
          : matches \in {get_records_by_uid_pre(recs, uid_pre)} })

(* the prefixes of the stored identifiers, and one that starts none *)
Prefixes(recs) ==
    {SubSeq(u, 1, k) : u \in StoredUuids(recs), k \in 1..2} \cup {<<"zz">>}

(* C24: looking up a CallRecord by an identifier prefix returns the record *)
(* when exactly one stored identifier starts with the prefix, raises       *)
(* MultipleObjectsReturned when two or more do and DoesNotExist when none  *)
(* does.                                                                   *)
C24_PrefixLookup ==
    records # <<>> =>
        \A pre \in Prefixes(records) :
            \A hits \in {{u \in StoredUuids(records) : StartsWith(u, pre)}} :
                record(records, pre) =
                    IF Cardinality(hits) > 1
                    THEN [exc |-> "MultipleObjectsReturned", ret |-> <<>>]
                    ELSE IF hits = {} THEN [exc |-> "DoesNotExist", ret |-> <<>>]
                    ELSE [exc |-> NoExc, ret |-> CHOOSE u \in hits : TRUE]

(* C29: two distinct invocations never get the same CallRecord identifier, *)
(* so that the record stored for one is never overwritten by the record of *)
(* another, and the stored records are never fewer than before.            *)
C29_DistinctIdentifiers ==
    /\ \A i \in 1..Len(records), j \in 1..Len(records) :
          i # j => Uuid(records, i) # Uuid(records, j)
    /\ Len(records) >= last.pre_nrec


(* ---------------------- the parent graph of a project ------------------ *)
(* Projects of plain features whose parents are changed with add_parents   *)
(* and whose project file is edited and loaded again.                      *)
GraphProjects == { [graph |-> DiamondGraph, kind |-> AllKind("Feature")],
                   [graph |-> TriangleGraph, kind |-> AllKind("Feature")] }

(* arguments of add_parents, as the items of the dict in order *)
NewParents == { <<>>, <<PK("up", "a")>>, <<PK("up", "p1")>>, <<PK("left", "n")>>,
                <<PK("right", "a"), PK("extra", "p2")>> }

(* `parents` entries written into the project file by an edit *)
EditedParents == { <<>>, <<PK("up", "p2")>> }

InitGraph ==
    \E p \in GraphProjects :
        /\ kind = p.kind
        /\ declared = p.graph
        /\ srv = IdleServer
        /\ tool = NoTool
        /\ hook = [x \in Nodes |-> "none"]
        /\ pre_hook = [x \in Nodes |-> FALSE]
        /\ post_hook = [x \in Nodes |-> FALSE]
        /\ db = ColdDb(p)
        /\ mem = [x \in Nodes |-> ProjectHandle(ColdDb(p), x)]
        /\ logs = [x \in Nodes |-> 0]
        /\ records = <<>>
        /\ clock = 0
        /\ last = InitRecord(ColdDb(p), [x \in Nodes |-> 0], 0)

(* `self.parent_ids[parent_key] = parent_id` on a dict kept as its items   *)
SetItem(pids, key, id) ==
    IF \E i \in 1..Len(pids) : pids[i].key = key
    THEN [i \in 1..Len(pids) |-> IF pids[i].key = key THEN PK(key, id) ELSE pids[i]]
    ELSE Append(pids, PK(key, id))

(* the loop of add_parents over new_parents.items() *)
RECURSIVE UpdateItems(_, _)
UpdateItems(pids, m) ==
    IF m = <<>> THEN pids
    ELSE UpdateItems(SetItem(pids, m[1].key, m[1].id), Tail(m))

(* add_parents that replaces the mapping by new_parents *)
WithParents_replace(h, m) ==
    [h EXCEPT !.parent_ids = m,
              !.chg = IF m = <<>> THEN @ ELSE @ \cup {"parent_ids"}]

(* Feature.add_parents(new_parents) on the handle h, before its save()     *)
WithParents(h, m) ==
    [h EXCEPT !.parent_ids = UpdateItems(@, m),
              !.chg = IF m = <<>> THEN @ ELSE @ \cup {"parent_ids"}]

(* a client calls x.add_parents(m) on the project handle *)
AddParents(x, m) ==
    /\ last.seq < MaxOps
    /\ \E r \in {Save(World({}), WithParents(mem[x], m))} :
          /\ Commit(x, [w |-> r.w, h |-> r.h])
          /\ last' = OpRecord("add_parents", x, m, [w |-> r.w, exc |-> NoExc])

(* the `parents` entry of x in the project file is rewritten *)
EditProject(x, m) ==
    /\ last.seq < MaxOps
    /\ declared[x] # m
    /\ declared' = [declared EXCEPT ![x] = m]
    /\ last' = OpRecord("edit", x, m, [w |-> World({}), exc |-> NoExc])
    /\ UNCHANGED <<kind, hook, pre_hook, post_hook, db, mem, logs, records,
                   clock, srv, tool>>

(* Project.__init__ with every feature already in the database:            *)
(* include_feature gets the document and attaches the hooks; add_parents   *)
(* is called for a new feature only.                                       *)
LoadProject ==
    /\ last.seq < MaxOps
    /\ mem' = [x \in Nodes |-> ProjectHandle(db, x)]
    /\ last' = OpRecord("load", "a", FALSE, [w |-> World({}), exc |-> NoExc])
    /\ UNCHANGED <<kind, hook, pre_hook, post_hook, db, logs, records, clock,
                   declared, srv, tool>>

NextGraph ==
    \/ \E x \in Nodes : \E m \in NewParents : AddParents(x, m)
    \/ \E x \in Nodes : \E m \in EditedParents : EditProject(x, m)
    \/ LoadProject
    \/ \E x \in Nodes : SetExpired(x, TRUE)
    \/ \E x \in Nodes : Touch(x, {})

SpecGraph == InitGraph /\ [][NextGraph]_vars

(* the parent id a role-keyed mapping gives for key, "" when it has none   *)
IdOf(pids, key) ==
    IF \E i \in 1..Len(pids) : pids[i].key = key
    THEN pids[CHOOSE i \in 1..Len(pids) : pids[i].key = key].id
    ELSE ""

KeysOf(pids) == {pids[i].key : i \in 1..Len(pids)}

(* C26: add_parents(m) leaves the parent mapping of the node equal to the  *)
(* old mapping overridden by m: every role key of m maps to its new parent *)
(* id, every other role key keeps its parent id, no key appears twice; the *)
(* mapping is persisted and a new object of the node finds the same        *)
(* parents; no update action ran, no log and no call record was written;   *)
(* add_parents(m) once more leaves the mapping as it is.                   *)
C26_AddParentsMerges ==
    last.op = "add_parents" =>
        \A old \in {last.pre_mem[last.node].parent_ids} :
        \A new \in {mem[last.node].parent_ids} :
            /\ KeysOf(new) = KeysOf(old) \cup KeysOf(last.arg)
            /\ Len(new) = Cardinality(KeysOf(new))
            /\ \A k \in KeysOf(last.arg) : IdOf(new, k) = IdOf(last.arg, k)
            /\ \A k \in KeysOf(old) \ KeysOf(last.arg) : IdOf(new, k) = IdOf(old, k)
            /\ db[last.node].parent_ids = new
            /\ \A y \in Nodes \ {last.node} :
                   db[y].parent_ids = last.pre_db[y].parent_ids
            /\ \A ps \in {Parents(db, Load(db, last.node))} :
                   /\ Len(ps) = Len(new)
                   /\ \A i \in 1..Len(ps) : ps[i].id = IdOf(new, new[i].key)
            /\ Updated(last.trace) = {}
            /\ logs = last.pre_logs
            /\ Len(records) = last.pre_nrec
            /\ WithParents(mem[last.node], last.arg).parent_ids = new

(* add_parents has overridden one role key of a node with another parent   *)
(* and left its other role key alone                                       *)
C26_Witness ==
    /\ last.op = "add_parents"
    /\ \E k \in KeysOf(last.arg) :
          /\ k \in KeysOf(last.pre_mem[last.node].parent_ids)
          /\ IdOf(last.pre_mem[last.node].parent_ids, k) # IdOf(last.arg, k)
    /\ KeysOf(last.pre_mem[last.node].parent_ids) \ KeysOf(last.arg) # {}
    /\ KeysOf(last.arg) \ KeysOf(last.pre_mem[last.node].parent_ids) # {}

(* C27: after any sequence of add_parents calls and project loads no node  *)
(* is reachable from itself by following parent references.                *)
C27_Acyclic ==
    \A x \in Nodes : x \notin Ancestors(db, x)

(* a feature that is its own ancestor can be reached from x *)
OnCycle(d, x) ==
    \E y \in AncestorsOrSelf(d, x) : y \in Ancestors(d, y)

C30_LoadedAsDeclared ==
    last.op = "load" =>
        \A x \in Nodes :
            /\ KeysOf(mem[x].parent_ids) = KeysOf(declared[x])
            /\ \A k \in KeysOf(declared[x]) :
                   IdOf(mem[x].parent_ids, k) = IdOf(declared[x], k)


(* ------------------------------ the server ---------------------------- *)
(* Dyserver.feature_post_handler and refresh_feature, one action for every *)
(* stretch of code between two awaits.  The resolver expired_ancestors,    *)
(* the executor exec_feature with its instrument lock and the `exposed`    *)
(* marking are those of the specification.                                 *)
ServerProject == [graph |-> DiamondGraph, kind |-> AllKind("Feature")]

(* the `feature` and `method` fields of the requests *)
RequestFeatures == {"n", "p1", "zz"}

RequestMethods == {"touch", "tree", "set_expired", "nope"}

(* a server started on a project some of whose features have been marked   *)
(* expired with set_expired                                                *)
InitServer ==
    \E E \in SUBSET {"a", "p1", "n"} :
        \E d \in {[x \in Nodes |-> [ColdDb(ServerProject)[x] EXCEPT !.sw = x \in E]]} :
            /\ kind = ServerProject.kind
            /\ declared = ServerProject.graph
            /\ srv = IdleServer
            /\ tool = NoTool
            /\ hook = [x \in Nodes |-> "none"]
            /\ pre_hook = [x \in Nodes |-> FALSE]
            /\ post_hook = [x \in Nodes |-> FALSE]
            /\ db = d
            /\ mem = [x \in Nodes |-> ProjectHandle(d, x)]
            /\ logs = [x \in Nodes |-> 0]
            /\ records = <<>>
            /\ clock = 0
            /\ last = InitRecord(d, [x \in Nodes |-> 0], 0)

(* isinstance(method, exposed): the method exists and is marked exposed    *)
IsExposed(m) == m \in {"touch", "tree"}

(* hasattr(method, 'is_refresh') *)
IsRefresh(m) == m = "touch"

(* effective expiry of a project feature without expiration hook *)
EffectiveExpired(m, x) == FeatureExpired(m[x].sw, FALSE, "FRESH")

RECURSIVE Resolve(_, _, _)
RECURSIVE ResolveParents(_, _, _, _)

(* the depth-first walk of the resolver over the parents of x, in order    *)
ResolveParents(m, ps, i, acc) ==
    IF i > Len(ps) THEN acc
    ELSE ResolveParents(m, ps, i + 1, Resolve(m, ps[i].id, acc))

(* expired_ancestors_or_self: ancestors first, every node once, a node     *)
(* scheduled iff it is expired or one of its ancestors is scheduled        *)
Resolve(m, x, acc) ==
    LET up == ResolveParents(m, m[x].parent_ids, 1, acc)
        ids == {up[i] : i \in 1..Len(up)}
    IN IF x \in ids THEN up
       ELSE IF EffectiveExpired(m, x) \/ Ancestors(m, x) \cap ids # {}
            THEN Append(up, x)
       ELSE up

ExpiredAncestors(m, x) == Resolve(m, x, <<>>)

(* the lock is handed out whoever holds it *)
LockFree_any(l) == TRUE

(* the instrument lock can be taken *)
LockFree(l) == l = NoHolder

SetHandler(h, r) == srv' = [srv EXCEPT !.hs[h] = r]

(* the method is called and the response built from its value             *)
Invoked(r) == [r EXCEPT !.pc = "done", !.invoked = TRUE, !.resp = "200"]

(* a handler that goes on to the call where it should answer not-found    *)
NotFound_fallthrough(r) == [r EXCEPT !.pc = "done", !.invoked = TRUE, !.resp = "200"]

(* raise web.HTTPNotFound *)
NotFound(r) == [r EXCEPT !.pc = "done", !.resp = "404"]

(* feature_post_handler from the request to its first await: the feature   *)
(* is looked up by name, the method by getattr and isinstance              *)
Post(h, f, m) ==
    /\ srv.hs[h].pc = "idle"
    /\ \E r \in {[srv.hs[h] EXCEPT !.feature = f, !.method = m]} :
          SetHandler(h, IF f \notin DOMAIN declared THEN NotFound(r)
                        ELSE IF ~IsExposed(m) THEN NotFound(r)
                        ELSE IF IsRefresh(m) THEN [r EXCEPT !.pc = "resolving"]
                        ELSE Invoked(r))
    /\ UNCHANGED <<kind, hook, pre_hook, post_hook, db, mem, logs, records,
                   clock, last, declared, tool>>

(* CallRecord(scheduled_feature, request) for the next scheduled feature,  *)
(* then exec_feature waits for the lock; with nothing left to execute the  *)
(* method is invoked                                                       *)
NextFeature(h, r) ==
    IF r.todo = <<>>
    THEN /\ SetHandler(h, Invoked(r))
         /\ UNCHANGED records
    ELSE /\ records' = Append(records,
                              NewRecord(World({}), r.todo[1], r.method, NoRecord))
         /\ SetHandler(h, [r EXCEPT !.pc = "waiting", !.rec = Len(records) + 1])

(* `await feature.expired_ancestors()` returns the features to refresh     *)
Schedule(h) ==
    /\ srv.hs[h].pc = "resolving"
    /\ \E plan \in {ExpiredAncestors(mem, srv.hs[h].feature)} :
          NextFeature(h, [srv.hs[h] EXCEPT !.plan = plan, !.todo = plan])
    /\ UNCHANGED <<kind, hook, pre_hook, post_hook, db, mem, logs, clock,
                   last, declared, tool>>

(* exec_feature takes the instrument lock and starts the update action     *)
Acquire(h) ==
    /\ srv.hs[h].pc = "waiting"
    /\ LockFree(srv.lock)
    /\ srv' = [srv EXCEPT !.lock = h, !.hs[h].pc = "measuring"]
    /\ UNCHANGED <<kind, hook, pre_hook, post_hook, db, mem, logs, records,
                   clock, last, declared, tool>>

(* the update action ends.  On success the override is cleared, the        *)
(* feature saved, the record concluded DONE, the lock released and the     *)
(* next feature taken up; on InstrumentNotFoundError the record is         *)
(* concluded FAILED, the lock released and the request answered with       *)
(* HTTPNotImplemented.                                                     *)
Finish(h, ok) ==
    /\ srv.hs[h].pc = "measuring"
    /\ \E r \in {srv.hs[h]} : \E x \in {srv.hs[h].todo[1]} :
          IF ok
          THEN \E sv \in {Save(World({}), SetSwitch(mem[x], FALSE))} :
                 \E w \in {Conclude(sv.w, r.rec, "DONE")} :
                   /\ db' = w.db
                   /\ mem' = [mem EXCEPT ![x] = sv.h]
                   /\ \E r2 \in {[r EXCEPT !.todo = Tail(@),
                                            !.ran = Append(@, x)]} :
                         IF r2.todo = <<>>
                         THEN /\ records' = w.records
                              /\ srv' = [srv EXCEPT !.lock = NoHolder,
                                                    !.hs[h] = Invoked(r2)]
                         ELSE /\ records' = Append(w.records,
                                      NewRecord(w, r2.todo[1], r.method, NoRecord))
                              /\ srv' = [srv EXCEPT
                                      !.lock = NoHolder,
                                      !.hs[h] = [r2 EXCEPT !.pc = "waiting",
                                                 !.rec = Len(records) + 1]]
          ELSE /\ records' = Conclude(World({}), r.rec, "FAILED").records
               /\ srv' = [srv EXCEPT !.lock = NoHolder,
                                     !.hs[h] = [r EXCEPT !.pc = "done",
                                                         !.resp = "501"]]
               /\ UNCHANGED <<db, mem>>
    /\ UNCHANGED <<kind, hook, pre_hook, post_hook, logs, clock, last, declared, tool>>

NextServer ==
    \/ \E h \in Handlers : \E f \in RequestFeatures : \E m \in RequestMethods :
          Post(h, f, m)
    \/ \E h \in Handlers : Schedule(h)
    \/ \E h \in Handlers : Acquire(h)
    \/ \E h \in Handlers : \E ok \in BOOLEAN : Finish(h, ok)

SpecServer == InitServer /\ [][NextServer]_vars

C25_PostHandler ==
    \A h \in Handlers : \A r \in {srv.hs[h]} :
        /\ r.invoked =>
              /\ r.feature \in Nodes
              /\ r.method \notin {"set_expired", "nope"}
              /\ r.resp = "200"
        /\ (r.pc # "idle" /\ (r.feature \notin Nodes
                               \/ r.method \in {"set_expired", "nope"})) =>
              /\ r.resp = "404" /\ ~r.invoked
              /\ r.plan = <<>> /\ r.ran = <<>> /\ r.rec = NoRecord
        /\ (r.invoked /\ r.method = "touch") =>
              /\ r.ran = r.plan /\ r.todo = <<>>
              /\ srv.lock # h
              /\ \A y \in AncestorsOrSelf(db, r.feature) : ~db[y].sw /\ ~mem[y].sw
              /\ \A i \in 1..Len(r.plan) :
                     \E j \in 1..Len(records) :
                        records[j].feature = r.plan[i] /\ records[j].status = "DONE"
        /\ (r.invoked /\ r.method # "touch") => (r.plan = <<>> /\ r.ran = <<>>)
        /\ r.resp = "501" => ~r.invoked

(* a refresh-bearing method has been invoked after a refresh of several    *)
(* features while another request was answered not-found                   *)
C25_Witness ==
    \E h1 \in Handlers : \E h2 \in Handlers \ {h1} :
        /\ srv.hs[h1].invoked /\ srv.hs[h1].method = "touch"
        /\ Len(srv.hs[h1].ran) >= 2
        /\ srv.hs[h2].resp = "404"


(* ------------------------ tools around the graph ---------------------- *)
(* Sessions on the config file, the dummy lab, the fitting routines, the   *)
(* scenario files and the services.  A session works on one tool; the      *)
(* project is loaded and left alone.                                       *)
ToolStep(t) ==
    /\ tool' = t
    /\ UNCHANGED <<kind, hook, pre_hook, post_hook, db, mem, logs, records,
                   clock, last, declared, srv>>

(* ------------------------------ config file --------------------------- *)
(* Text is a sequence of characters, the config file a sequence of lines.  *)
(* line.split(self.sep, maxsplit=1): the text before and after the first   *)
(* separator; ok is FALSE (ValueError on unpacking) when there is none.    *)
Split(line) ==
    LET at == {i \in 1..Len(line) : line[i] = "="}
    IN IF at = {} THEN [ok |-> FALSE, key |-> line, val |-> <<>>]
       ELSE LET i == CHOOSE j \in at : \A k \in at : j <= k
            IN [ok |-> TRUE, key |-> SubSeq(line, 1, i - 1),
                val |-> SubSeq(line, i + 1, Len(line))]

(* str.replace(old, new): every occurrence of old, from the left, without  *)
(* overlap; an empty old matches before every character and at the end.    *)
RECURSIVE Replace(_, _, _)
Replace(s, old, new) ==
    IF old = <<>>
    THEN IF s = <<>> THEN new ELSE new \o <<s[1]>> \o Replace(Tail(s), old, new)
    ELSE IF Len(s) < Len(old) THEN s
    ELSE IF SubSeq(s, 1, Len(old)) = old
         THEN new \o Replace(SubSeq(s, Len(old) + 1, Len(s)), old, new)
    ELSE <<s[1]>> \o Replace(Tail(s), old, new)

(* FileMapping.__setitem__: every line whose key is `key` is printed with  *)
(* line.replace(old_val, val); when no line has the key, key=val is        *)
(* appended.  Every line of the files here holds a separator.              *)
FileSetItem(lines, key, val) ==
    IF \E i \in 1..Len(lines) : Split(lines[i]).key = key
    THEN [i \in 1..Len(lines) |->
            IF Split(lines[i]).key = key
            THEN Replace(lines[i], Split(lines[i]).val, val) ELSE lines[i]]
    ELSE Append(lines, key \o <<"=">> \o val)

(* FileMapping.__getitem__: the value of the first line with the key       *)
FileGetItem(lines, key) ==
    LET at == {i \in 1..Len(lines) : Split(lines[i]).key = key}
    IN IF at = {} THEN [exc |-> "KeyError", val |-> <<>>]
       ELSE [exc |-> NoExc,
             val |-> Split(lines[CHOOSE j \in at : \A k \in at : j <= k]).val]

(* set_config_var(name, val): config[name] = str(val) *)
SetConfigVar(key, val) ==
    /\ tool.on = "conf"
    /\ tool.n < MaxOps
    /\ ToolStep([tool EXCEPT !.n = @ + 1, !.key = key, !.val = val,
                             !.pre = tool.file,
                             !.file = FileSetItem(tool.file, key, val)])

(* ------------------------------- dummy lab ---------------------------- *)
(* Fizzmeter.attach_fizzer(fizzer) on meter m of the lab L: the fizzers of *)
(* the meters, the meters of the fizzers, the measurements taken.          *)
attach_fizzer(L, m, f) ==
    IF L.meter[f] # "None" THEN [lab |-> L, ret |-> 1]
    ELSE IF L.fizzer[m] # "None"
         THEN [lab |-> [L EXCEPT !.meter = [g \in DOMAIN L.meter |->
                                              IF g = f THEN m
                                              ELSE IF g = L.fizzer[m] THEN "None"
                                              ELSE L.meter[g]],
                                 !.fizzer[m] = f],
               ret |-> 0]
    ELSE [lab |-> L, ret |-> 0]

(* Fizzmeter.measure() *)
measure(L, m) ==
    IF L.fizzer[m] = "None" THEN [lab |-> L, ret |-> 1]
    ELSE [lab |-> [L EXCEPT !.measurements[m] = @ + 1], ret |-> 0]

(* one call on a device of the lab *)
LabCall(op, m, f) ==
    /\ tool.on = "lab"
    /\ tool.n < MaxOps
    /\ \E r \in {IF op = "attach_fizzer" THEN attach_fizzer(tool.lab, m, f)
                  ELSE measure(tool.lab, m)} :
          ToolStep([tool EXCEPT !.n = @ + 1, !.op = op, !.m = m, !.f = f,
                                !.pre = tool.lab, !.lab = r.lab, !.ret = r.ret])

(* ---------------------------- fitting routines ------------------------ *)
(* y[a:b] of a numpy array: a negative bound counts from the end, bounds   *)
(* beyond the array are clipped.                                           *)
Slice(y, a, b) ==
    LET lo == IF a < 0 THEN Max(a + Len(y), 0) ELSE a
        hi == IF b < 0 THEN Max(b + Len(y), 0) ELSE IF b > Len(y) THEN Len(y) ELSE b
    IN IF lo >= hi THEN <<>> ELSE SubSeq(y, lo + 1, hi)

(* recursive_linear_search(y, threshold_value, forward_sense, step_size):  *)
(* step is where the while loop stops, root is int(floor(sqrt(step_size))) *)
RECURSIVE recursive_linear_search(_, _, _, _)
recursive_linear_search(y, threshold_value, forward_sense, step_size) ==
    LET n == Len(y)
        stops == {k \in 0..n :
                    \/ k * step_size >= n
                    \/ (IF forward_sense THEN y[k * step_size + 1]
                        ELSE y[n - k * step_size]) > threshold_value}
        step == CHOOSE k \in stops : \A j \in stops : k <= j
        subinterval ==
            IF forward_sense
            THEN Slice(y, (step - 1) * step_size,
                       IF step * step_size < n THEN step * step_size ELSE n)
            ELSE Slice(y, Max((n - 1) - step * step_size, 0),
                       n - (step - 1) * step_size)
        root == CHOOSE r \in 1..step_size : r * r <= step_size
                                            /\ (r + 1) * (r + 1) > step_size
    IN IF step_size = 1 THEN step
       ELSE (step - 1) * step_size
            + recursive_linear_search(subinterval, threshold_value,
                                      forward_sense, root)

(* the search is run on the inputs of the session *)
Search ==
    /\ tool.on = "search"
    /\ ~tool.done
    /\ ToolStep([tool EXCEPT !.done = TRUE,
                             !.ret = recursive_linear_search(tool.y, tool.t,
                                                             tool.fwd, tool.s)])

(* ----------------------------- scenario files ------------------------- *)
(* A config is a dict of one item; its key and its value are Python values *)
(* [t |-> type, v |-> content as a sequence of atoms, for a dict its key   *)
(* and the items of its list].  What is written is a value of the data     *)
(* model of the format: json has string keys, arrays and objects, msgpack  *)
(* has arrays, maps with keys of any type and binary data.                 *)
(* dump_to_json_numpy_text and msgpack.packb(default=encode_msgpack), for  *)
(* the key and for the value of the item                                   *)
Encode(fmt, x, iskey) ==
    CASE iskey /\ fmt = "json" /\ x.t = "int" -> [t |-> "str", v |-> x.v]
      [] x.t \in {"list", "tuple"} -> [t |-> "array", v |-> x.v]
      [] x.t = "complex" -> [t |-> "map", v |-> <<"__complex__">> \o x.v]
      [] x.t = "ndarray" /\ fmt = "json" ->
             [t |-> "map", v |-> <<"__ndarray__">> \o x.v]
      [] x.t = "ndarray" /\ fmt # "json" ->
             [t |-> "map", v |-> <<"__ndarray__", "bytes">> \o x.v]
      [] x.t = "dict" -> [t |-> "map", v |-> x.v]
      [] OTHER -> x

(* json.loads with json_numpy_text_hook, msgpack.unpackb with the hook of  *)
(* decode_msgpack and use_list=True                                        *)
Decode(fmt, d) ==
    CASE d.t = "array" -> [t |-> "list", v |-> d.v]
      [] d.t = "map" /\ d.v[1] = "__complex__" -> [t |-> "complex", v |-> Tail(d.v)]
      [] d.t = "map" /\ d.v[1] = "__ndarray__" ->
             [t |-> "ndarray",
              v |-> IF fmt = "json" THEN Tail(d.v) ELSE Tail(Tail(d.v))]
      [] d.t = "map" -> [t |-> "dict", v |-> d.v]
      [] OTHER -> d

(* save_labber_scenario_from_dict(file_name, config) on the files fs: the  *)
(* extension decides the format, anything but json goes to base.labber     *)
save_labber_scenario_from_dict(fs, file_name, config) ==
    LET fmt == IF file_name.ext \in {".json", ".JSON"} THEN "json" ELSE "labber"
        out == IF fmt = "json" THEN file_name
               ELSE [file_name EXCEPT !.ext = ".labber"]
    IN [f \in DOMAIN fs |->
          IF f = out THEN [fmt |-> fmt, key |-> Encode(fmt, config.key, TRUE),
                           val |-> Encode(fmt, config.val, FALSE)]
          ELSE fs[f]]

(* load_labber_scenario_as_dict(file_name) *)
load_labber_scenario_as_dict(fs, file_name) ==
    LET fmt == IF file_name.ext \in {".json", ".JSON"} THEN "json" ELSE "labber"
        src == IF fmt = "json" THEN file_name
               ELSE [file_name EXCEPT !.ext = ".labber"]
    IN [key |-> Decode(fmt, fs[src].key), val |-> Decode(fmt, fs[src].val)]

(* a scenario is saved *)
SaveScenario(file_name, config) ==
    /\ tool.on = "scenario"
    /\ tool.n < MaxOps
    /\ ToolStep([tool EXCEPT !.n = @ + 1, !.f = file_name, !.c = config,
                    !.files = save_labber_scenario_from_dict(@, file_name, config)])

(***************************************************************************)
(* result accessors as descriptors                                         *)
(***************************************************************************)

(* result.__get__(obj, objtype): client c evaluates `x.m`.  The descriptor *)
(* of m is one object of the class; it stores x in self.obj and returns    *)
(* itself, so what c holds is the descriptor.                              *)
result_get(c, x, m) ==
    /\ tool.on = "accessor"
    /\ tool.held[c].m = ""
    /\ ToolStep([tool EXCEPT !.obj[m] = x,
                             !.held[c] = [from |-> x, m |-> m, called |-> FALSE]])

(* result.__call__(): client c calls what it holds; the call is            *)
(* self.wrapped_fn(self.obj), on the feature the descriptor stores now.    *)
result_call(c) ==
    /\ tool.on = "accessor"
    /\ tool.held[c].m # ""
    /\ ~tool.held[c].called
    /\ \E m \in {tool.held[c].m} : \E n \in {tool.obj[m]} :
          \E r \in {Wrapped(World({}), mem[n], m, ClientKw, 0)} :
              /\ mem' = [mem EXCEPT ![n] = r.h]
              /\ db' = r.w.db
              /\ logs' = r.w.logs
              /\ records' = r.w.records
              /\ clock' = r.w.clock
              /\ last' = OpRecord(m, n, FALSE, r)
              /\ tool' = [tool EXCEPT !.held[c].called = TRUE,
                                      !.ran = [c |-> c, node |-> n]]
              /\ UNCHANGED <<kind, hook, pre_hook, post_hook, declared, srv>>

(***************************************************************************)
(* the log files of one feature, written by two refresh passes             *)
(***************************************************************************)

(* LabberFeature.__call__ up to `self.labber_output_file =                 *)
(* self.log_history.next_log_path()`: pass p takes log_path(len(self)),    *)
(* the number of log files of the feature in the data directory now.       *)
next_log_path(p) ==
    /\ tool.on = "logs"
    /\ tool.pass[p].pc = "idle"
    /\ Cardinality(tool.dir) < MaxOps
    /\ ToolStep([tool EXCEPT !.pass[p] = [pc |-> "measuring",
                                          path |-> Cardinality(tool.dir)]])

(* config.performMeasurement() of pass p writes the file it was given *)
performMeasurement(p) ==
    /\ tool.on = "logs"
    /\ tool.pass[p].pc = "measuring"
    /\ ToolStep([tool EXCEPT !.pass[p].pc = "idle",
                             !.dir = @ \cup {tool.pass[p].path},
                             !.wrote = Append(@, tool.pass[p].path)])

(***************************************************************************)
(* services                                                                *)
(***************************************************************************)

(* StatusMessage.__exit__(exc_type, exc_value, traceback): prints the      *)
(* status and ends with `return True`, for every exception of the body;    *)
(* the value is what leaves the with statement.                            *)
StatusMessage_exit(exc) == NoExc

(* Service.start() of a JobScheduler *)
start ==
    /\ tool.on = "service"
    /\ tool.n < MaxOps + 1
    /\ ToolStep([tool EXCEPT !.n = @ + 1, !.op = "start", !.pre = tool.running,
                             !.raised = IF tool.running THEN "AlreadyOnError" ELSE NoExc,
                             !.exc = StatusMessage_exit(IF tool.running
                                                        THEN "AlreadyOnError" ELSE NoExc),
                             !.called = ~tool.running,
                             !.running = TRUE,
                             !.changed = IF tool.running THEN @ ELSE "start"])

(* Service.stop() of a JobScheduler *)
stop ==
    /\ tool.on = "service"
    /\ tool.n < MaxOps + 1
    /\ ToolStep([tool EXCEPT !.n = @ + 1, !.op = "stop", !.pre = tool.running,
                             !.raised = IF ~tool.running THEN "AlreadyOffError" ELSE NoExc,
                             !.exc = StatusMessage_exit(IF ~tool.running
                                                        THEN "AlreadyOffError" ELSE NoExc),
                             !.called = tool.running,
                             !.running = FALSE,
                             !.changed = IF tool.running THEN "stop" ELSE @])

(* the tools as a session finds them: the config file with one entry, the  *)
(* lab with two fizzers and two fizzmeters as constructed, the search with *)
(* an array that does not decrease in the search direction, the scenario   *)
(* directory with one scenario in each format                              *)
InitTools ==
    /\ tool \in { [on |-> "conf", n |-> 0, key |-> <<>>, val |-> <<>>, pre |-> <<>>,
                    file |-> <<<<"b", "=", "a", "b">>>>] }
             \cup
               { [on |-> "lab", n |-> 0, op |-> "", m |-> "", f |-> "", ret |-> 0,
                  pre |-> L, lab |-> L]
                 : L \in {[fizzer |-> [m \in {"fizzmeter_1", "fizzmeter_2"} |-> "None"],
                           meter |-> [f \in {"fizzer_1", "fizzer_2"} |-> "None"],
                           measurements |-> [m \in {"fizzmeter_1", "fizzmeter_2"} |-> 0]]} }
             \cup
               { [on |-> "search", done |-> FALSE, ret |-> 0,
                  y |-> y, t |-> 1, fwd |-> fwd, s |-> s]
                 : y \in {z \in UNION {[1..n -> 0..2] : n \in 0..MaxLen} :
                            \A i \in 1..(Len(z) - 1) : z[i] <= z[i + 1]},
                   fwd \in {TRUE}, s \in 1..MaxLen }
             \cup
               { [on |-> "search", done |-> FALSE, ret |-> 0,
                  y |-> y, t |-> 1, fwd |-> fwd, s |-> s]
                 : y \in {z \in UNION {[1..n -> 0..2] : n \in 0..MaxLen} :
                            \A i \in 1..(Len(z) - 1) : z[i] >= z[i + 1]},
                   fwd \in {FALSE}, s \in 1..MaxLen }
             \cup
               { [on |-> "scenario", n |-> 0, f |-> [base |-> "s", ext |-> ".json"],
                  c |-> [key |-> [t |-> "str", v |-> <<"a">>],
                         val |-> [t |-> "int", v |-> <<"1">>]],
                  files |-> [f \in [base : {"s"},
                                    ext : {".json", ".JSON", ".labber", ".LABBER"}] |->
                               [fmt |-> IF f.ext \in {".json", ".JSON"} THEN "json"
                                        ELSE "labber",
                                key |-> [t |-> "str", v |-> <<"a">>],
                                val |-> [t |-> "int", v |-> <<"1">>]]]] }
             \cup
               { [on |-> "accessor",
                  obj |-> [m \in ResultNames |-> "None"],
                  held |-> [c \in 1..2 |-> [from |-> "None", m |-> "", called |-> FALSE]],
                  ran |-> [c |-> 0, node |-> "None"]] }
             \cup
               { [on |-> "logs",
                  pass |-> [p \in 1..2 |-> [pc |-> "idle", path |-> 0]],
                  dir |-> {}, wrote |-> <<>>] }
             \cup
               { [on |-> "service", n |-> 0, op |-> "", pre |-> FALSE,
                  raised |-> NoExc, exc |-> NoExc, called |-> FALSE,
                  running |-> FALSE, changed |-> ""] }
    /\ \E p \in {IF tool.on = "accessor"
                  THEN [graph |-> DiamondGraph, kind |-> AllKind("Labber")]
                  ELSE ServerProject} :
          /\ kind = p.kind
          /\ declared = p.graph
          /\ srv = IdleServer
          /\ hook = [x \in Nodes |-> "none"]
          /\ pre_hook = [x \in Nodes |-> FALSE]
          /\ post_hook = [x \in Nodes |-> FALSE]
          /\ db = ColdDb(p)
          /\ mem = [x \in Nodes |-> ProjectHandle(ColdDb(p), x)]
          /\ logs = [x \in Nodes |-> 0]
          /\ records = <<>>
          /\ clock = 0
          /\ last = InitRecord(ColdDb(p), [x \in Nodes |-> 0], 0)

NextTools ==
    \/ \E key \in {<<"a">>, <<"b">>, <<"a", "b">>} :
          \E val \in {<<>>, <<"a">>, <<"b">>, <<"b", "a">>} : SetConfigVar(key, val)
    \/ \E op \in {"attach_fizzer", "measure"} :
          \E m \in {"fizzmeter_1", "fizzmeter_2"} :
              \E f \in {"fizzer_1", "fizzer_2"} : LabCall(op, m, f)
    \/ Search
    \/ \E f \in [base : {"s"}, ext : {".json", ".JSON", ".labber", ".LABBER"}] :
          \E k \in {[t |-> "str", v |-> <<"a">>], [t |-> "int", v |-> <<"1">>]} :
              \E v \in {[t |-> "int", v |-> <<"1">>], [t |-> "str", v |-> <<"x">>],
                         [t |-> "list", v |-> <<"1", "2">>],
                         [t |-> "tuple", v |-> <<"1", "2">>],
                         [t |-> "complex", v |-> <<"1", "2">>],
                         [t |-> "ndarray", v |-> <<"1", "2">>],
                         [t |-> "dict", v |-> <<"b", "1", "2">>],
                         [t |-> "dict", v |-> <<"__complex__", "1", "2">>]} :
                  SaveScenario(f, [key |-> k, val |-> v])
    \/ \E c \in 1..2 : \E x \in {"p1", "p2"} : \E m \in ResultNames : result_get(c, x, m)
    \/ \E c \in 1..2 : result_call(c)
    \/ \E p \in 1..2 : next_log_path(p)
    \/ \E p \in 1..2 : performMeasurement(p)
    \/ start
    \/ stop

SpecTools == InitTools /\ [][NextTools]_vars

(* C31: after config[k] = v, for k and v without the separator, reading    *)
(* config[k] returns v, the file holds exactly one entry for k, and every  *)
(* other entry is unchanged.                                               *)
C31_ConfigSet ==
    (tool.on = "conf" /\ tool.n > 0) =>
        /\ FileGetItem(tool.file, tool.key) = [exc |-> NoExc, val |-> tool.val]
        /\ Cardinality({i \in 1..Len(tool.file) :
                          Split(tool.file[i]).key = tool.key}) = 1
        /\ \A i \in 1..Len(tool.pre) :
              Split(tool.pre[i]).key # tool.key => tool.file[i] = tool.pre[i]
        /\ Len(tool.file) \in {Len(tool.pre), Len(tool.pre) + 1}

(* C32: attach_fizzer(f) returns 1 and changes nothing when f is in a      *)
(* fizzmeter; otherwise it returns 0, the fizzer of the fizzmeter is f and *)
(* the fizzmeter of f is this one, also when the fizzmeter held no fizzer, *)
(* and a following measure() returns 0 and appends one measurement.        *)
C32_AttachFizzer ==
    (tool.on = "lab" /\ tool.op = "attach_fizzer") =>
        IF tool.pre.meter[tool.f] # "None"
        THEN tool.ret = 1 /\ tool.lab = tool.pre
        ELSE /\ tool.ret = 0
             /\ tool.lab.fizzer[tool.m] = tool.f
             /\ tool.lab.meter[tool.f] = tool.m
             /\ measure(tool.lab, tool.m).ret = 0
             /\ measure(tool.lab, tool.m).lab.measurements[tool.m]
                    = tool.lab.measurements[tool.m] + 1

(* C33: for an array that is monotone in the search direction, a threshold *)
(* and a step size of at least 1, recursive_linear_search returns the      *)
(* number of elements passed before the first one that exceeds the         *)
(* threshold (the length of the array when none does), whatever the step   *)
(* size.                                                                   *)
C33_LinearSearch ==
    (tool.on = "search" /\ tool.done) =>
        tool.ret = Cardinality({i \in 1..Len(tool.y) : tool.y[i] <= tool.t})

(* C34: for every file name with a .json or .labber extension and every    *)
(* config, loading the file after saving the config to it returns the      *)
(* config; a scenario loaded from a file of one format and saved to a file *)
(* of the other loads back equal.                                          *)
C34_ScenarioRoundTrip ==
    (tool.on = "scenario" /\ tool.n > 0) =>
        /\ load_labber_scenario_as_dict(tool.files, tool.f) = tool.c
        /\ \A g \in DOMAIN tool.files :
              \A c \in {load_labber_scenario_as_dict(tool.files, tool.f)} :
                  load_labber_scenario_as_dict(
                      save_labber_scenario_from_dict(tool.files, g, c), g) = c
(***************************************************************************)
(* the value of touch                                                      *)
(***************************************************************************)

(* C35: a touch of a node that returns gives TRUE exactly when the         *)
(* update_action of that node ran during the touch, both when a client     *)
(* calls x.touch() and when a child touches its parent x from is_stale     *)
(* (is_stale=False passed as a keyword).                                   *)
C35_TouchValue ==
    \A x \in Nodes :
        \A kw \in {ClientKw, TouchKw(NoRecord)} :
            \A r \in {Wrapped(World({}), mem[x], "touch", kw, 0)} :
                r.exc = NoExc => (r.ret <=> x \in Updated(r.w.trace))

(* the same for the touch of a parent by its child only *)
C35_ParentTouchValue ==
    \A x \in Nodes :
        \A r \in {Wrapped(World({}), mem[x], "touch", TouchKw(NoRecord), 0)} :
            r.exc = NoExc => (r.ret <=> x \in Updated(r.w.trace))


(***************************************************************************)
(* the feature an accessor handle runs on                                  *)
(***************************************************************************)

(* C36: a call of the accessor handle that a client fetched from node X    *)
(* runs (refreshes, reads, caches) on X, whatever was fetched from other   *)
(* nodes of the class in between.                                          *)
C36_HandleRunsOnOrigin ==
    (tool.on = "accessor" /\ tool.ran.c # 0) =>
        /\ tool.ran.node = tool.held[tool.ran.c].from
        /\ last.node = tool.held[tool.ran.c].from

(***************************************************************************)
(* log indices                                                             *)
(***************************************************************************)

(* C37: every measurement of a node writes its log under an index no       *)
(* earlier measurement of the node used, and after n measurements the log  *)
(* indices of the node are exactly 0..n-1, also when two refresh passes on *)
(* the node interleave.                                                    *)
C37_FreshLogIndex ==
    tool.on = "logs" =>
        /\ \A i, j \in 1..Len(tool.wrote) : i # j => tool.wrote[i] # tool.wrote[j]
        /\ tool.dir = 0..(Len(tool.wrote) - 1)

(***************************************************************************)
(* stored derived values                                                   *)
(***************************************************************************)

(* C38: a derived value stored as results[i][name] of a node stays: no     *)
(* later accessor call, refresh or save through any handle changes or      *)
(* removes the entry, in the database document of the node or on the       *)
(* project handle.                                                         *)
C38_StoredStays ==
    [][\A x \in Nodes :
          /\ \A i \in DOMAIN db[x].results : \A nm \in DOMAIN db[x].results[i] :
                /\ i \in DOMAIN db'[x].results
                /\ nm \in DOMAIN db'[x].results[i]
                /\ db'[x].results[i][nm] = db[x].results[i][nm]
          /\ \A i \in DOMAIN mem[x].results : \A nm \in DOMAIN mem[x].results[i] :
                /\ i \in DOMAIN mem'[x].results
                /\ nm \in DOMAIN mem'[x].results[i]
                /\ mem'[x].results[i][nm] = mem[x].results[i][nm]]_vars

(***************************************************************************)
(* starting and stopping a service                                         *)
(***************************************************************************)

(* C39: start() on a running service signals AlreadyOnError to the caller  *)
(* and does not call _start; stop() on a service that is not running       *)
(* signals AlreadyOffError to the caller and does not call _stop; a        *)
(* JobScheduler is running exactly when the last call that changed its     *)
(* state was start.                                                        *)
C39_ServiceErrors ==
    (tool.on = "service" /\ tool.n > 0) =>
        /\ (tool.op = "start" /\ tool.pre) =>
               (tool.exc = "AlreadyOnError" /\ ~tool.called)
        /\ (tool.op = "stop" /\ ~tool.pre) =>
               (tool.exc = "AlreadyOffError" /\ ~tool.called)
        /\ tool.running <=> (tool.changed = "start")

(* the same without what the caller is told: the error is raised inside    *)
(* the with statement                                                      *)
C39_ServiceState ==
    (tool.on = "service" /\ tool.n > 0) =>
        /\ (tool.op = "start" /\ tool.pre) =>
               (tool.raised = "AlreadyOnError" /\ ~tool.called)
        /\ (tool.op = "stop" /\ ~tool.pre) =>
               (tool.raised = "AlreadyOffError" /\ ~tool.called)
        /\ tool.running <=> (tool.changed = "start")

====
